---- MODULE Spec2Model ----
(***************************************************************************)
(* Model of dashboard.py: the analytics dashboard of the investment        *)
(* calculator.  One render of the page is one run of main(): load_data()   *)
(* (a 60 s cache in front of execute_query_with_retry), the sidebar        *)
(* widgets, the filter, the export buttons, the optional conversion into   *)
(* rubles, the aggregations, and last the exchange rates                   *)
(* (get_cbr_rates, a 3600 s cache in front of the HTTP request).           *)
(*                                                                         *)
(* A nullable column (target_sum, period, reinvest_enabled, add_sum) is a  *)
(* set: {} for NULL/NaN, {v} for the value v.  A comparison with NaN is    *)
(* false, as in pandas.                                                    *)
(***************************************************************************)
EXTENDS Integers, Sequences, FiniteSets, TLC

VARIABLES
    clock,          \* wall-clock time, in seconds
    record_cache,   \* the st.cache_data(ttl=60) slot of load_data
    rates_cache,    \* the st.cache_data(ttl=3600) slot of get_cbr_rates
    pc,             \* where the current render of main() is
    attempt,        \* execute_query_with_retry: the loop variable
    tries,          \* attempts started by the store fetch of this render
    outcomes,       \* how each of these attempts ended, in order
    open_conns,     \* connections the current fetch opened and did not close
    reports,        \* st.warning / st.error messages of the current render
    df,             \* main: the loaded table
    widgets,        \* main: the values of the sidebar widgets
    conditions,     \* main: the list of boolean masks
    df_filtered,    \* main: the filtered (and later converted) table
    csv_data,       \* main: the table handed to the download buttons
    rates,          \* main: the local variable rates (<<>> while unbound)
    calc_type_stats,\* main: the group-by of the filtered table by kind
    sum_dist,       \* main: the histogram of initial_sum
    final_dist,     \* main: the histogram of final_amount
    profit_dist,    \* main: the histogram of total_profit
    activity_pivot, \* main: the hour x weekday table of the heatmap
    steps,          \* the stages the current render has executed
    response        \* what the rate service answers to a request

vars == <<clock, record_cache, rates_cache, pc, attempt, tries, outcomes, open_conns,
          reports, df, widgets, conditions, df_filtered, csv_data, rates,
          calc_type_stats, sum_dist, final_dist, profit_dist, activity_pivot,
          steps, response>>

fetch_vars == <<attempt, tries, outcomes, open_conns>>
main_vars == <<widgets, conditions, df_filtered, csv_data, rates,
               calc_type_stats, sum_dist, final_dist, profit_dist, activity_pivot,
               steps>>

----------------------------------------------------------------------------
(* Bounds of the model *)

\* the longest result set the store returns
MaxRows == 2
\* how many sidebar controls the operator moves away from their default
MaxNarrowed == 1
\* the clock stops here
MaxClock == 70
\* the longest list of <Valute> elements in an answer of the rate service
MaxValutes == 2

(* Program constants *)

\* execute_query_with_retry(query, max_retries=3)
max_retries == 3
\* @st.cache_data(ttl=60) on load_data
RECORD_TTL == 60
\* @st.cache_data(ttl=3600) on get_cbr_rates
RATES_TTL == 3600

----------------------------------------------------------------------------
(* The rows of investment_calculations the store may hold, newest first    *)
(* (the query orders by created_at DESC; id grows with creation).          *)

Row(id, client, kind, cur, init, intr, fin, prof, date, per, tgt, reinv, add, hour, dow) ==
    [index |-> 0, id |-> id, client_id |-> client, calculation_type |-> kind, currency |-> cur,
     initial_sum |-> init, interest_rate |-> intr, final_amount |-> fin,
     total_profit |-> prof, date_only |-> date, period |-> per, target_sum |-> tgt,
     reinvest_enabled |-> reinv, add_sum |-> add, hour_only |-> hour,
     day_of_week |-> dow]

StoreRows ==
    << Row(6, 1, 1, "RUB", 100, 5, 150,  50, 3, {12}, {},    {TRUE},  {},   9,  1),
       Row(5, 2, 4, "USD", 5000, 7, 50000, 45000, 3, {}, {500}, {FALSE}, {10}, 14, 3),
       Row(4, 1, 4, "RUB", 100, 5, 160,  60, 2, {99}, {},    {TRUE},  {},   9,  1),
       Row(3, 3, 1, "EUR", 300, 9, 450, 150, 2, {24}, {700}, {},      {20}, 23, 0),
       Row(2, 2, 2, "RUB", 5000, 7, 50000, 45000, 1, {}, {},  {FALSE}, {},   0,  6),
       Row(1, 3, 1, "USD", 300, 9, 450, 150, 1, {},   {},    {TRUE},  {5},  9,  1) >>

\* the rows of StoreRows whose positions are in I, in the order of StoreRows
RowsAt(I) ==
    LET F[k \in 0..Len(StoreRows)] ==
            IF k = 0 THEN <<>>
            ELSE IF k \in I THEN Append(F[k-1], StoreRows[k]) ELSE F[k-1]
    IN F[Len(StoreRows)]

\* pd.read_sql labels the rows of a result set 0, 1, 2, ... (a RangeIndex)
RangeIndex(rows) == [k \in 1..Len(rows) |-> [rows[k] EXCEPT !.index = k - 1]]

\* the rows of a result set of at most n rows, as positions in StoreRows
Selections(n) == { J \in SUBSET (1..Len(StoreRows)) : Cardinality(J) <= n }

\* the result set pd.read_sql returns when the store holds the rows at I
ResultSet(I) == RangeIndex(RowsAt(I))

----------------------------------------------------------------------------
(* st.cache_data(ttl): one slot per function, as the functions take no     *)
(* arguments.  An entry stored at time s answers calls at times < s + ttl. *)

EmptySlot == [valid |-> FALSE, value |-> <<>>, stored |-> 0]

\* mutant: an entry still answers at the very end of its time to live
CacheFresh_inclusive(slot, ttl, now) == slot.valid /\ now <= slot.stored + ttl

CacheFresh(slot, ttl, now) == slot.valid /\ now < slot.stored + ttl

CacheStore(value, now) == [valid |-> TRUE, value |-> value, stored |-> now]

----------------------------------------------------------------------------
(* Exchange rates are fractions <<numerator, denominator>> in lowest terms. *)

RECURSIVE Gcd(_, _)
Gcd(a, b) == IF b = 0 THEN a ELSE Gcd(b, a % b)

Frac(n, d) == LET g == Gcd(n, d) IN IF g = 0 THEN <<0, 1>> ELSE <<n \div g, d \div g>>

FracDiv(x, y) == Frac(x[1] * y[2], x[2] * y[1])

FracMul(x, y) == Frac(x[1] * y[1], x[2] * y[2])

\* the fallback table of get_cbr_rates, line 109
FallbackRates == [RUB |-> <<1, 1>>, USD |-> <<95, 1>>, EUR |-> <<105, 1>>]

(* The text of an XML element is a sequence of characters.                 *)
Digits == {"0", "1", "2", "3", "4", "5", "6", "7", "8", "9"}

DigitValue(c) ==
    CASE c = "0" -> 0 [] c = "1" -> 1 [] c = "2" -> 2 [] c = "3" -> 3 [] c = "4" -> 4
      [] c = "5" -> 5 [] c = "6" -> 6 [] c = "7" -> 7 [] c = "8" -> 8 [] c = "9" -> 9

\* str.replace(',', '.')
ReplaceComma(text) == [i \in 1..Len(text) |-> IF text[i] = "," THEN "." ELSE text[i]]

\* float(text): <<>> stands for ValueError, otherwise the value as a fraction
ParseFloat(text) ==
    LET dots == {i \in 1..Len(text) : text[i] = "."}
        ok == /\ \A i \in 1..Len(text) : text[i] \in Digits \cup {"."}
              /\ Cardinality(dots) <= 1
              /\ Cardinality(dots) < Len(text)
        digits == SelectSeq(text, LAMBDA c : c \in Digits)
        decimals == IF dots = {} THEN 0 ELSE Len(text) - (CHOOSE i \in dots : TRUE)
        Num[k \in 0..Len(digits)] ==
            IF k = 0 THEN 0 ELSE 10 * Num[k-1] + DigitValue(digits[k])
        Pow[k \in 0..decimals] == IF k = 0 THEN 1 ELSE 10 * Pow[k-1]
    IN IF ok THEN Frac(Num[Len(digits)], Pow[decimals]) ELSE <<>>

(* One pass of the loop of get_cbr_rates, lines 96-102, over the element   *)
(* valute with the table acc built so far.  A child element that is        *)
(* missing is {} (find returns None and .text raises AttributeError).     *)
(* The result is the new table, or Raised for any exception.               *)
Raised == [raised |-> TRUE, table |-> <<>>]

Returned(table) == [raised |-> FALSE, table |-> table]

ValuteStep(acc, valute) ==
    IF valute.CharCode = {} \/ valute.Value = {} \/ valute.Nominal = {}
    THEN Raised
    ELSE LET char_code == CHOOSE c \in valute.CharCode : TRUE
             value == ReplaceComma(CHOOSE v \in valute.Value : TRUE)
             nominal == CHOOSE n \in valute.Nominal : TRUE
         IN IF char_code \in {"USD", "EUR"}
            THEN LET v == ParseFloat(value)
                     n == ParseFloat(nominal)
                 IN IF v = <<>> \/ n = <<>> THEN Raised         \* ValueError
                    ELSE IF n[1] = 0 THEN Raised                \* ZeroDivisionError
                    ELSE Returned([c \in DOMAIN acc \cup {char_code} |->
                             IF c = char_code THEN FracDiv(v, n) ELSE acc[c]])
            ELSE Returned(acc)

(* get_cbr_rates, lines 86-109, on the answer resp of the rate service:    *)
(* of kind "network error" (requests.get raises), "not xml"                *)
(* (ET.fromstring raises) or "document", with the list of its <Valute>     *)
(* elements.  The result is the table returned and whether st.warning was  *)
(* called.                                                                 *)
get_cbr_rates(resp) ==
    IF resp.kind # "document"
    THEN [table |-> FallbackRates, warned |-> TRUE]
    ELSE LET Loop[k \in 0..Len(resp.valutes)] ==
                 IF k = 0 THEN Returned([RUB |-> <<1, 1>>])
                 ELSE IF Loop[k-1].raised THEN Raised
                 ELSE ValuteStep(Loop[k-1].table, resp.valutes[k])
             end == Loop[Len(resp.valutes)]
         IN IF end.raised
            THEN [table |-> FallbackRates, warned |-> TRUE]
            ELSE [table |-> end.table, warned |-> FALSE]

\* convert_to_rub, lines 111-115; the result is a fraction
convert_to_rub(amount, currency, rate_table) ==
    IF currency = "RUB" THEN <<amount, 1>>
    ELSE IF currency \in DOMAIN rate_table
         THEN FracMul(<<amount, 1>>, rate_table[currency])
         ELSE FracMul(<<amount, 1>>, <<1, 1>>)

(* The answers of the rate service.                                        *)
ValuteElements ==
    [CharCode : {{}, {"USD"}, {"EUR"}, {"GBP"}},
     Value    : {{}, {<<"9", "5", ",", "5">>}, {<<"2", "1", "0">>}, {<<"x">>}},
     Nominal  : {{}, {<<"1">>}, {<<"1", "0">>}, {<<"0">>}}]

ValuteLists(n) == UNION { [1..k -> ValuteElements] : k \in 0..n }

Responses(n) ==
    {[kind |-> k, valutes |-> <<>>] : k \in {"network error", "not xml"}}
    \cup {[kind |-> "document", valutes |-> vs] : vs \in ValuteLists(n)}

----------------------------------------------------------------------------
\* the answers of the rate service a render of the whole page may meet
RenderAnswers ==
    { [kind |-> "network error", valutes |-> <<>>],
      [kind |-> "document",
       valutes |-> << [CharCode |-> {"USD"}, Value |-> {<<"9", "5", ",", "5">>},
                       Nominal |-> {<<"1">>}],
                      [CharCode |-> {"EUR"}, Value |-> {<<"2", "1", "0">>},
                       Nominal |-> {<<"1", "0">>}] >>] }

Init ==
    /\ clock = 0
    /\ record_cache = EmptySlot
    /\ rates_cache = EmptySlot
    /\ pc = "idle"
    /\ attempt = 0
    /\ tries = 0
    /\ outcomes = <<>>
    /\ open_conns = 0
    /\ reports = {}
    /\ df = <<>>
    /\ widgets = <<>>
    /\ conditions = <<>>
    /\ df_filtered = <<>>
    /\ csv_data = <<>>
    /\ rates = <<>>
    /\ calc_type_stats = <<>>
    /\ sum_dist = <<>>
    /\ final_dist = <<>>
    /\ profit_dist = <<>>
    /\ activity_pivot = <<>>
    /\ steps = {}
    /\ response \in RenderAnswers

\* time passes between renders and while a fetch waits for the store
Tick ==
    /\ pc \in {"idle", "connect"}
    /\ \E d \in {1, RECORD_TTL - 1, RECORD_TTL} :
          /\ clock + d <= MaxClock
          /\ clock' = clock + d
    /\ UNCHANGED <<record_cache, rates_cache, pc, fetch_vars, reports, df,
                   main_vars, response>>

----------------------------------------------------------------------------
(* main, lines 233-244: df = load_data().  A fresh cache entry is returned *)
(* without running load_data; otherwise load_data runs and calls           *)
(* execute_query_with_retry, whose loop starts at attempt 0.               *)

main_load_data ==
    /\ pc = "idle"
    /\ reports' = {}
    /\ steps' = {}
    /\ widgets' = <<>>
    /\ conditions' = <<>>
    /\ df_filtered' = <<>>
    /\ csv_data' = <<>>
    /\ rates' = <<>>
    /\ calc_type_stats' = <<>>
    /\ sum_dist' = <<>>
    /\ final_dist' = <<>>
    /\ profit_dist' = <<>>
    /\ activity_pivot' = <<>>
    /\ outcomes' = <<>>
    /\ open_conns' = 0
    /\ IF CacheFresh(record_cache, RECORD_TTL, clock)
       THEN /\ df' = record_cache.value
            /\ pc' = "loaded"
            /\ tries' = 0
            /\ UNCHANGED attempt
       ELSE /\ df' = <<>>
            /\ pc' = "connect"
            /\ attempt' = 0
            /\ tries' = 1
    /\ UNCHANGED <<clock, record_cache, rates_cache, response>>

(* st.stop() inside load_data unwinds through the cache decorator, which   *)
(* stores a value only when load_data returns one: the slot keeps what it  *)
(* held.                                                                   *)
\* mutant: a failed load empties the slot
CacheAfterStop_cleared(slot) == [valid |-> FALSE, value |-> <<>>, stored |-> 0]

CacheAfterStop(slot) == slot

(* get_database_connection, called from the try block of attempt `attempt`.*)
(* psycopg2.connect either returns an open connection or raises; every     *)
(* exception, OperationalError included, is caught inside                  *)
(* get_database_connection, reported with st.error and ends the render     *)
(* with st.stop(), which no `except Exception` catches.                    *)
get_database_connection(outcome) ==
    /\ pc = "connect"
    /\ IF outcome = "connected"
       THEN /\ open_conns' = open_conns + 1
            /\ pc' = "read_sql"
            /\ UNCHANGED <<reports, outcomes, record_cache>>
       ELSE /\ reports' = reports \cup {"error: db connection"}
            /\ outcomes' = Append(outcomes, [at |-> "connect", what |-> outcome])
            /\ record_cache' = CacheAfterStop(record_cache)
            /\ pc' = "stopped"
            /\ UNCHANGED open_conns
    /\ UNCHANGED <<clock, rates_cache, attempt, tries, df, main_vars, response>>

\* mutant: every exception of pd.read_sql is retried
Handler_all_transient(outcome) == "transient"

\* the except clause a failure of pd.read_sql lands in
Handler(outcome) ==
    IF outcome \in {"OperationalError", "InterfaceError"} THEN "transient"
    ELSE "other"

\* line 162: is there another attempt after attempt a?
MayRetry(a) == a < max_retries - 1

(* execute_query_with_retry, lines 157-170, and on success the rest of     *)
(* load_data (lines 212-216), the store into the cache slot and the        *)
(* return into main.  pd.read_sql returns a result set of at most n rows   *)
(* or raises.                                                              *)
read_sql_ok(n) ==
    /\ pc = "read_sql"
    /\ \E I \in Selections(n) :
          /\ df' = ResultSet(I)
          /\ record_cache' = CacheStore(ResultSet(I), clock)
    /\ outcomes' = Append(outcomes, [at |-> "read_sql", what |-> "ok"])
    /\ open_conns' = open_conns - 1          \* conn.close()
    /\ pc' = "loaded"
    /\ UNCHANGED <<clock, rates_cache, attempt, tries, reports, main_vars, response>>

read_sql_raises ==
    /\ pc = "read_sql"
    /\ \E outcome \in {"OperationalError", "InterfaceError", "ProgrammingError"} :
          /\ outcomes' = Append(outcomes, [at |-> "read_sql", what |-> outcome])
          /\ IF Handler(outcome) = "transient"
             THEN IF MayRetry(attempt)
                  THEN /\ reports' = reports \cup {"warning: reconnecting"}
                       /\ attempt' = attempt + 1
                       /\ tries' = tries + 1
                       /\ pc' = "connect"
                       /\ UNCHANGED record_cache
                  ELSE /\ reports' = reports \cup {"error: db after retries"}
                       /\ record_cache' = CacheAfterStop(record_cache)
                       /\ pc' = "stopped"
                       /\ UNCHANGED <<attempt, tries>>
             ELSE /\ reports' = reports \cup {"error: loading data"}
                  /\ record_cache' = CacheAfterStop(record_cache)
                  /\ pc' = "stopped"
                  /\ UNCHANGED <<attempt, tries>>
    /\ UNCHANGED <<clock, rates_cache, open_conns, df, main_vars, response>>

----------------------------------------------------------------------------
(* The sidebar widgets of main, lines 249-401.                             *)

Column(frame, col) == {frame[k][col] : k \in 1..Len(frame)}

\* Series.min() and Series.max() of a column without NaN
Min(S) == CHOOSE x \in S : \A y \in S : x <= y
Max(S) == CHOOSE x \in S : \A y \in S : x >= y

\* the values of a nullable column that are present (min, max skip NaN)
Present(frame, col) == UNION Column(frame, col)

\* what a range slider over the values S may be set to
SliderValues(S) == {r \in S \X S : r[1] <= r[2]}

\* lines 272-279: the label of a calculation kind in the multiselect
TypeLabel(t) ==
    IF t = 1 THEN [name |-> "Final amount", number |-> 0]
    ELSE IF t = 4 THEN [name |-> "Time to goal", number |-> 0]
    ELSE [name |-> "Type", number |-> t]

\* lines 288-298: back from the selected labels to the kinds
TypeNumber(label) ==
    IF label.name = "Final amount" THEN 1
    ELSE IF label.name = "Time to goal" THEN 4
    ELSE label.number

\* lines 373-377: the selected reinvestment options as booleans
ReinvestValues(options) ==
    (IF "with" \in options THEN {TRUE} ELSE {})
    \cup (IF "without" \in options THEN {FALSE} ELSE {})

\* rows of one calculation kind: df[df['calculation_type'] == t]
OfType(frame, t) == SelectSeq(frame, LAMBDA r : r.calculation_type = t)

(* lines 329-344: the period slider.  "absent": period_range = None;      *)
(* "raised": int(NaN) raises ValueError when no row of kind 1 has a        *)
(* period; "shown": the slider over the periods of the rows of kind 1.     *)
PeriodSlider(frame, selected_type_numbers) ==
    IF 1 \in selected_type_numbers /\ OfType(frame, 1) # <<>>
    THEN IF Present(OfType(frame, 1), "period") = {} THEN "raised" ELSE "shown"
    ELSE "absent"

\* lines 347-363: the target-sum slider
TargetSlider(frame, selected_type_numbers) ==
    IF 4 \in selected_type_numbers /\ OfType(frame, 4) # <<>>
         /\ Present(OfType(frame, 4), "target_sum") # {}
    THEN "shown" ELSE "absent"

\* the sidebar controls that filter
Controls == {"date", "currencies", "types", "initial_sum", "interest_rate",
             "period", "target_sum", "reinvest", "final_amount", "total_profit"}

\* control c is either at its default or, when the operator moved it, at any
\* other of its values
Setting(c, moved, default, values) == IF c \in moved THEN values \ {default} ELSE {default}

\* the default of a range slider: value=(min, max)
Full(S) == <<Min(S), Max(S)>>

(* A slider that is not shown leaves its range variable None, here <<>>.   *)
PeriodSettings(frame, types, moved) ==
    IF PeriodSlider(frame, types) = "shown"
    THEN LET S == Present(OfType(frame, 1), "period")
         IN Setting("period", moved, Full(S), SliderValues(S))
    ELSE {<<>>}

TargetSettings(frame, types, moved) ==
    IF TargetSlider(frame, types) = "shown"
    THEN LET S == Present(OfType(frame, 4), "target_sum")
         IN Setting("target_sum", moved, Full(S), SliderValues(S))
    ELSE {<<>>}

\* st.date_input returns one date while the operator has picked only the start
DateValues(S) == SliderValues(S) \cup {<<d>> : d \in S}

\* the options of the multiselect of kinds: a label per kind in the table
TypeOptions(frame) == {TypeLabel(t) : t \in Column(frame, "calculation_type")}

\* the controls the operator may have moved: at most n of them
Moves(n) == {m \in SUBSET Controls : Cardinality(m) <= n}

----------------------------------------------------------------------------
(* The filter of main, lines 403-445.                                      *)

\* a comparison of a nullable value: false when the value is NaN
GeN(x, bound) == \E v \in x : v >= bound
LeN(x, bound) == \E v \in x : v <= bound

\* mutant: the lower end of a range is excluded
AtLeast_strict(v, bound) == v > bound

\* line 407 and alike: column >= lower end of the slider
AtLeast(v, bound) == v >= bound
\* line 408 and alike: column <= upper end of the slider
AtMost(v, bound) == v <= bound

\* mutant: the period range is applied to the rows of every kind
PeriodCondition_unguarded(r, range) ==
    GeN(r.period, range[1]) /\ LeN(r.period, range[2])

\* lines 427-428
PeriodCondition(r, range) ==
    r.calculation_type # 1 \/ (GeN(r.period, range[1]) /\ LeN(r.period, range[2]))

\* lines 434-435
TargetCondition(r, range) ==
    r.calculation_type # 4 \/ (GeN(r.target_sum, range[1]) /\ LeN(r.target_sum, range[2]))

(* lines 404-440: the list conditions.  Mask is a boolean Series with the  *)
(* name of its condition: it carries the index labels of the rows of       *)
(* frame (label + 1, as sequences start at 1) and for each label whether   *)
(* the row passes.  For a table as loaded the labels are 0..n-1.           *)
Conditions(frame, w) ==
    LET Mask(name, fr, P(_)) ==
            [name |-> name,
             mask |-> [i \in {fr[k].index + 1 : k \in 1..Len(fr)} |->
                          P(fr[CHOOSE k \in 1..Len(fr) : fr[k].index + 1 = i])]]
        selected_type_numbers == {TypeNumber(l) : l \in w.selected_calc_types}
        reinvest_values == ReinvestValues(w.reinvest_options)
    IN << Mask("currency", frame, LAMBDA r : r.currency \in w.currencies),
          Mask("calculation_type", frame,
               LAMBDA r : r.calculation_type \in selected_type_numbers),
          Mask("initial_sum >=", frame,
               LAMBDA r : AtLeast(r.initial_sum, w.initial_sum_range[1])),
          Mask("initial_sum <=", frame,
               LAMBDA r : AtMost(r.initial_sum, w.initial_sum_range[2])),
          Mask("interest_rate >=", frame,
               LAMBDA r : AtLeast(r.interest_rate, w.interest_rate_range[1])),
          Mask("interest_rate <=", frame,
               LAMBDA r : AtMost(r.interest_rate, w.interest_rate_range[2])),
          Mask("final_amount >=", frame,
               LAMBDA r : AtLeast(r.final_amount, w.final_amount_range[1])),
          Mask("final_amount <=", frame,
               LAMBDA r : AtMost(r.final_amount, w.final_amount_range[2])),
          Mask("total_profit >=", frame,
               LAMBDA r : AtLeast(r.total_profit, w.profit_range[1])),
          Mask("total_profit <=", frame,
               LAMBDA r : AtMost(r.total_profit, w.profit_range[2])) >>
       \o (IF Len(w.date_range) = 2
           THEN << Mask("date >=", frame, LAMBDA r : AtLeast(r.date_only, w.date_range[1])),
                   Mask("date <=", frame, LAMBDA r : AtMost(r.date_only, w.date_range[2])) >>
           ELSE <<>>)
       \o (IF w.period_range # <<>>
           THEN << Mask("period", frame, LAMBDA r : PeriodCondition(r, w.period_range)) >>
           ELSE <<>>)
       \o (IF w.target_sum_range # <<>>
           THEN << Mask("target_sum", frame,
                        LAMBDA r : TargetCondition(r, w.target_sum_range)) >>
           ELSE <<>>)
       \o (IF reinvest_values # {}
           THEN << Mask("reinvest_enabled", frame,
                        LAMBDA r : r.reinvest_enabled \cap reinvest_values # {}) >>
           ELSE <<>>)

\* mutant: the mask is applied by position, its k-th entry to the k-th row
Select_positional(frame, condition) ==
    LET labels == DOMAIN condition.mask
        Nth(k) == CHOOSE i \in labels : Cardinality({j \in labels : j < i}) = k - 1
        F[k \in 0..Len(frame)] ==
            IF k = 0 THEN <<>>
            ELSE IF k <= Cardinality(labels) /\ condition.mask[Nth(k)]
                 THEN Append(F[k-1], frame[k]) ELSE F[k-1]
    IN F[Len(frame)]

\* df_filtered[condition]: the rows whose index label the mask marks True
Select(frame, condition) == SelectSeq(frame, LAMBDA r : condition.mask[r.index + 1])

\* lines 443-445: the conditions applied one after the other
ApplyAll(frame, conds) ==
    LET F[k \in 0..Len(conds)] == IF k = 0 THEN frame ELSE Select(F[k-1], conds[k])
    IN F[Len(conds)]

\* DataFrame.empty
IsEmpty(frame) == frame = <<>>

\* mutant: the render goes on with an empty filtered table
NoMatch_ignored(frame) == FALSE

\* line 447: if df_filtered.empty
NoMatch(frame) == IsEmpty(frame)

(* main, lines 238-449: the check for an empty table, the widgets, the     *)
(* conditions, the filter and the check for an empty filtered table.       *)
main_filter ==
    /\ pc = "loaded"
    /\ IF IsEmpty(df)
       THEN /\ reports' = reports \cup {"warning: no data yet"}
            /\ pc' = "stopped"
            /\ UNCHANGED <<widgets, conditions, df_filtered, steps>>
       ELSE \E moved \in Moves(MaxNarrowed) :
            \E convert \in BOOLEAN,
               date \in Setting("date", moved, Full(Column(df, "date_only")),
                                DateValues(Column(df, "date_only"))),
               curs \in Setting("currencies", moved, Column(df, "currency"),
                                SUBSET Column(df, "currency")),
               selected \in Setting("types", moved, TypeOptions(df), SUBSET TypeOptions(df)),
               initial \in Setting("initial_sum", moved, Full(Column(df, "initial_sum")),
                                   SliderValues(Column(df, "initial_sum"))),
               interest \in Setting("interest_rate", moved,
                                    Full(Column(df, "interest_rate")),
                                    SliderValues(Column(df, "interest_rate"))),
               reinvest \in Setting("reinvest", moved, {"with", "without"},
                                    SUBSET {"with", "without"}),
               final \in Setting("final_amount", moved, Full(Column(df, "final_amount")),
                                 SliderValues(Column(df, "final_amount"))),
               profit \in Setting("total_profit", moved, Full(Column(df, "total_profit")),
                                  SliderValues(Column(df, "total_profit"))) :
            \E period \in PeriodSettings(df, {TypeNumber(l) : l \in selected}, moved),
               target \in TargetSettings(df, {TypeNumber(l) : l \in selected}, moved) :
              LET w == [convert_to_rubles |-> convert, date_range |-> date,
                        currencies |-> curs, selected_calc_types |-> selected,
                        initial_sum_range |-> initial, interest_rate_range |-> interest,
                        period_range |-> period, target_sum_range |-> target,
                        reinvest_options |-> reinvest, final_amount_range |-> final,
                        profit_range |-> profit]
              IN
              /\ widgets' = w
              /\ IF PeriodSlider(df, {TypeNumber(l) : l \in selected}) = "raised"
                 THEN /\ pc' = "raised"
                      /\ UNCHANGED <<conditions, df_filtered, steps, reports>>
                 ELSE /\ conditions' = Conditions(df, w)
                      /\ df_filtered' = ApplyAll(df, conditions')
                      /\ steps' = steps \cup {"filter"}
                      /\ IF NoMatch(df_filtered')
                         THEN /\ reports' = reports \cup {"warning: no matching records"}
                              /\ pc' = "stopped"
                         ELSE /\ pc' = "filtered"
                              /\ UNCHANGED reports
    /\ attempt' = 0
    /\ tries' = 0
    /\ outcomes' = <<>>
    /\ open_conns' = 0
    /\ UNCHANGED <<clock, record_cache, rates_cache, df, csv_data, rates,
                   calc_type_stats, sum_dist, final_dist, profit_dist, activity_pivot,
                   response>>

\* to_csv(index=False) / to_excel(index=False): every column but the index
WithoutIndex(frame) ==
    [k \in 1..Len(frame) |-> [c \in DOMAIN frame[k] \ {"index"} |-> frame[k][c]]]

\* main, lines 451-514: the record counts and the two download buttons
main_export ==
    /\ pc = "filtered"
    /\ csv_data' = WithoutIndex(df_filtered)
    /\ steps' = steps \cup {"export"}
    /\ pc' = "exported"
    /\ UNCHANGED <<clock, record_cache, rates_cache, fetch_vars, reports, df, widgets,
                   conditions, df_filtered, rates, calc_type_stats, sum_dist,
                   final_dist, profit_dist, activity_pivot, response>>

\* mutant: the conversion also marks every converted row as a ruble row
ConvertRow_marks_currency(r, rate_table) ==
    [r EXCEPT !.initial_sum = convert_to_rub(r.initial_sum, r.currency, rate_table),
              !.final_amount = convert_to_rub(r.final_amount, r.currency, rate_table),
              !.total_profit = convert_to_rub(r.total_profit, r.currency, rate_table),
              !.add_sum = IF r.add_sum = {} THEN {<<0, 1>>}
                          ELSE {convert_to_rub(CHOOSE a \in r.add_sum : TRUE,
                                               r.currency, rate_table)},
              !.currency = "RUB"]

\* lines 519-530: the four monetary columns rewritten; a NaN add_sum becomes 0
ConvertRow(r, rate_table) ==
    [r EXCEPT !.initial_sum = convert_to_rub(r.initial_sum, r.currency, rate_table),
              !.final_amount = convert_to_rub(r.final_amount, r.currency, rate_table),
              !.total_profit = convert_to_rub(r.total_profit, r.currency, rate_table),
              !.add_sum = IF r.add_sum = {} THEN {<<0, 1>>}
                          ELSE {convert_to_rub(CHOOSE a \in r.add_sum : TRUE,
                                               r.currency, rate_table)}]

ConvertFrame(frame, rate_table) == [k \in 1..Len(frame) |-> ConvertRow(frame[k], rate_table)]

(* main, lines 516-534.  The lambdas read the local variable rates of      *)
(* main, which is assigned only at line 1045: while it is unbound the      *)
(* first row raises NameError and the render ends with the exception.      *)
main_convert ==
    /\ pc = "exported"
    /\ IF widgets.convert_to_rubles
       THEN IF rates = <<>>
            THEN /\ pc' = "raised"
                 /\ UNCHANGED <<df_filtered, steps>>
            ELSE /\ df_filtered' = ConvertFrame(df_filtered, rates)
                 /\ steps' = steps \cup {"normalize"}
                 /\ pc' = "converted"
       ELSE /\ pc' = "converted"
            /\ UNCHANGED <<df_filtered, steps>>
    /\ UNCHANGED <<clock, record_cache, rates_cache, fetch_vars, reports, df, widgets,
                   conditions, csv_data, rates, calc_type_stats, sum_dist,
                   final_dist, profit_dist, activity_pivot, response>>

\* mutant: the count column counts the clients, as the nunique column does
GroupByType_clients(frame) ==
    [t \in Column(frame, "calculation_type") |->
        [id |-> Cardinality(Column(OfType(frame, t), "client_id")),
         client_id |-> Cardinality(Column(OfType(frame, t), "client_id"))]]

\* lines 620-623: groupby('calculation_type').agg(id: count, client_id: nunique)
GroupByType(frame) ==
    [t \in Column(frame, "calculation_type") |->
        [id |-> Len(OfType(frame, t)),
         client_id |-> Cardinality(Column(OfType(frame, t), "client_id"))]]

(* lines 816-898: the histograms.  pd.cut(column, bins, labels) runs with  *)
(* its defaults right=True, include_lowest=False: bin i is the interval    *)
(* (bins[i], bins[i+1]], the last one reaching float('inf'); a value in    *)
(* no bin becomes NaN and value_counts counts it nowhere.  The lists below *)
(* hold the finite edges, for the converted and for the mixed-currency     *)
(* amounts.                                                                *)
bins(converted) ==
    IF converted
    THEN <<0, 50000, 100000, 200000, 500000, 1000000, 2000000, 5000000, 10000000>>
    ELSE <<0, 5000, 10000, 20000, 50000, 100000, 200000, 500000, 1000000, 5000000>>

bins_final(converted) ==
    IF converted
    THEN <<0, 200000, 1000000, 2000000, 5000000, 10000000, 20000000, 50000000>>
    ELSE <<0, 50000, 200000, 500000, 1000000, 2000000, 5000000, 10000000>>

bins_profit(converted) ==
    IF converted
    THEN <<0, 50000, 200000, 500000, 1000000, 2000000, 5000000, 10000000>>
    ELSE <<0, 10000, 50000, 100000, 200000, 500000, 1000000, 2000000>>

\* an amount of the filtered table as a fraction: converted amounts are fractions
Amount(v, converted) == IF converted THEN v ELSE <<v, 1>>

\* the fraction v against an edge of a bin
Above(v, edge) == v[1] > edge * v[2]
NotAbove(v, edge) == v[1] <= edge * v[2]

\* pd.cut of one value: the bins it falls in, none or one
Cut(v, edges) ==
    {i \in 1..Len(edges) :
        Above(v, edges[i]) /\ (i = Len(edges) \/ NotAbove(v, edges[i+1]))}

\* value_counts().sort_index() of the cut column: the count of every bin
value_counts(frame, col, edges, converted) ==
    [i \in 1..Len(edges) |->
        Cardinality({k \in 1..Len(frame) : i \in Cut(Amount(frame[k][col], converted), edges)})]

\* line 946, the labels transliterated: Monday, Tuesday, ... Sunday
day_names == <<"Pn", "Vt", "Sr", "Cht", "Pt", "Sb", "Vs">>

\* mutant: a cell tells whether any record fell into it
pivot_table_any(frame) ==
    [h \in Column(frame, "hour_only") |->
        [d \in Column(frame, "day_of_week") |->
            IF \E k \in 1..Len(frame) : frame[k].hour_only = h /\ frame[k].day_of_week = d
            THEN 1 ELSE 0]]

\* lines 937-943: pivot_table(values='id', index='hour_only',
\* columns='day_of_week', aggfunc='count', fill_value=0)
pivot_table(frame) ==
    [h \in Column(frame, "hour_only") |->
        [d \in Column(frame, "day_of_week") |->
            Cardinality({k \in 1..Len(frame) :
                            frame[k].hour_only = h /\ frame[k].day_of_week = d})]]

\* line 947: the columns renamed to day_names[int(col)]
RenameColumns(pivot, cols) ==
    [h \in DOMAIN pivot |->
        [name \in {day_names[d + 1] : d \in cols} |->
            pivot[h][CHOOSE d \in cols : day_names[d + 1] = name]]]

\* main, lines 536-1040: the metrics, tables and charts
main_aggregate ==
    /\ pc = "converted"
    /\ calc_type_stats' = GroupByType(df_filtered)
    /\ sum_dist' = value_counts(df_filtered, "initial_sum",
                                bins(widgets.convert_to_rubles), widgets.convert_to_rubles)
    /\ final_dist' = value_counts(df_filtered, "final_amount",
                                  bins_final(widgets.convert_to_rubles),
                                  widgets.convert_to_rubles)
    /\ profit_dist' = value_counts(df_filtered, "total_profit",
                                   bins_profit(widgets.convert_to_rubles),
                                   widgets.convert_to_rubles)
    /\ activity_pivot' = RenameColumns(pivot_table(df_filtered),
                                       Column(df_filtered, "day_of_week"))
    /\ steps' = steps \cup {"aggregate"}
    /\ pc' = "aggregated"
    /\ UNCHANGED <<clock, record_cache, rates_cache, fetch_vars, reports, df, widgets,
                   conditions, df_filtered, csv_data, rates, response>>

(* main, lines 1041-1059: rates = get_cbr_rates().  A fresh cache entry is *)
(* returned as it is; otherwise get_cbr_rates runs on the answer of the    *)
(* rate service and what it returns is stored.                             *)
main_rates ==
    /\ pc = "aggregated"
    /\ IF CacheFresh(rates_cache, RATES_TTL, clock)
       THEN /\ rates' = rates_cache.value
            /\ steps' = steps \cup {"rates"}
            /\ UNCHANGED <<rates_cache, reports>>
       ELSE /\ rates' = get_cbr_rates(response).table
            /\ rates_cache' = CacheStore(get_cbr_rates(response).table, clock)
            /\ reports' = IF get_cbr_rates(response).warned
                          THEN reports \cup {"warning: no rates"} ELSE reports
            /\ steps' = steps \cup {"rates", "get_cbr_rates"}
    /\ pc' = "done"
    /\ UNCHANGED <<clock, record_cache, fetch_vars, df, widgets, conditions,
                   df_filtered, csv_data, calc_type_stats, sum_dist, final_dist,
                   profit_dist, activity_pivot, response>>

\* st.stop(), an uncaught exception or the end of main ended the render: its
\* local variables are gone and the next render may start
render_over ==
    /\ pc \in {"stopped", "raised", "done"}
    /\ pc' = "idle"
    /\ df' = <<>>
    /\ widgets' = <<>>
    /\ conditions' = <<>>
    /\ df_filtered' = <<>>
    /\ csv_data' = <<>>
    /\ rates' = <<>>
    /\ calc_type_stats' = <<>>
    /\ sum_dist' = <<>>
    /\ final_dist' = <<>>
    /\ profit_dist' = <<>>
    /\ activity_pivot' = <<>>
    /\ steps' = {}
    /\ reports' = {}
    /\ tries' = 0
    /\ outcomes' = <<>>
    /\ UNCHANGED <<clock, record_cache, rates_cache, attempt, open_conns, response>>

(* The stages of main after load_data (lines 246-1059) read df and leave   *)
(* the store connection, the retry loop and the record cache alone; the    *)
(* specification of the store fetch runs them as one step.                 *)
main_after_load ==
    /\ pc = "loaded"
    /\ pc' = "done"
    /\ attempt' = 0
    /\ tries' = 0
    /\ outcomes' = <<>>
    /\ open_conns' = 0
    /\ UNCHANGED <<clock, record_cache, rates_cache, reports, df, main_vars, response>>

\* the longest result set in the specification of the store fetch
FetchRows == 1

NextFetch ==
    \/ Tick
    \/ main_load_data
    \/ \E outcome \in {"connected", "OperationalError", "other exception"} :
          get_database_connection(outcome)
    \/ read_sql_ok(FetchRows)
    \/ read_sql_raises
    \/ main_after_load
    \/ render_over

SpecFetch == Init /\ [][NextFetch]_vars

Next ==
    \/ main_load_data
    \/ \E outcome \in {"connected", "OperationalError", "other exception"} :
          get_database_connection(outcome)
    \/ read_sql_ok(MaxRows)
    \/ read_sql_raises
    \/ main_filter
    \/ main_export
    \/ main_convert
    \/ main_aggregate
    \/ main_rates
    \/ render_over

Spec == Init /\ [][Next]_vars

----------------------------------------------------------------------------
(* Properties of a render of the page, checked under Spec                  *)

Terminal == pc \in {"stopped", "raised", "done"}

\* row r appears in the table frame
In(r, frame) == \E k \in 1..Len(frame) : frame[k] = r

\* the row of df a row of the filtered table comes from
Origin(r) == df[r.index + 1]

\* amount a of currency c in rubles under the rate table t
InRubles(a, c, t) == IF c = "RUB" THEN <<a, 1>> ELSE Frac(a * t[c][1], t[c][2])

\* what get_cbr_rates() returns when called now
ProviderRates ==
    IF rates_cache.valid /\ clock < rates_cache.stored + RATES_TTL
    THEN rates_cache.value
    ELSE get_cbr_rates(response).table

(* C2: in a render with convert_to_rubles checked and a non-empty filtered *)
(* table the rate table is obtained before the conversion uses it, the     *)
(* conversion completes, and initial_sum, final_amount and total_profit of *)
(* every filtered row are the loaded values times the rate of the row's    *)
(* currency.                                                               *)
C2_ConversionUsesProviderRates ==
    (Terminal /\ "filter" \in steps /\ df_filtered # <<>> /\ widgets.convert_to_rubles)
      => /\ "normalize" \in steps
         /\ rates # <<>>
         /\ \A k \in 1..Len(df_filtered) :
              LET r == df_filtered[k]
                  o == Origin(r)
              IN /\ r.initial_sum = InRubles(o.initial_sum, o.currency, rates)
                 /\ r.final_amount = InRubles(o.final_amount, o.currency, rates)
                 /\ r.total_profit = InRubles(o.total_profit, o.currency, rates)

\* row r passes every range and membership predicate of the widgets w
Satisfies(r, w) ==
    /\ r.currency \in w.currencies
    /\ r.calculation_type \in {TypeNumber(l) : l \in w.selected_calc_types}
    /\ r.initial_sum \in w.initial_sum_range[1] .. w.initial_sum_range[2]
    /\ r.interest_rate \in w.interest_rate_range[1] .. w.interest_rate_range[2]
    /\ r.final_amount \in w.final_amount_range[1] .. w.final_amount_range[2]
    /\ r.total_profit \in w.profit_range[1] .. w.profit_range[2]
    /\ Len(w.date_range) = 2 => r.date_only \in w.date_range[1] .. w.date_range[2]
    /\ w.period_range # <<>> =>
          (r.calculation_type # 1
             \/ r.period \cap (w.period_range[1] .. w.period_range[2]) # {})
    /\ w.target_sum_range # <<>> =>
          (r.calculation_type # 4
             \/ r.target_sum \cap (w.target_sum_range[1] .. w.target_sum_range[2]) # {})

\* the reinvestment flag of row r is one of the selected options
ReinvestSelected(r, w) ==
    \/ TRUE \in r.reinvest_enabled /\ "with" \in w.reinvest_options
    \/ FALSE \in r.reinvest_enabled /\ "without" \in w.reinvest_options

(* C3: after the filter step the filtered table holds only rows of the     *)
(* loaded table, no more than it has; every retained row satisfies every   *)
(* predicate of the settings (currency set, kind set, the inclusive ranges *)
(* on initial sum, interest rate, final amount, profit and date, the       *)
(* kind-conditional period and target-sum ranges), and every loaded row    *)
(* that satisfies them all, and whose reinvestment flag is selected, is    *)
(* retained - a row on a bound of a range included.                        *)
C3_FilterIsConjunction ==
    ("filter" \in steps /\ "normalize" \notin steps) =>
       /\ Len(df_filtered) <= Len(df)
       /\ \A k \in 1..Len(df_filtered) : In(df_filtered[k], df)
       /\ \A k \in 1..Len(df) :
            /\ In(df[k], df_filtered) => Satisfies(df[k], widgets)
            /\ (Satisfies(df[k], widgets) /\ ReinvestSelected(df[k], widgets))
                  => In(df[k], df_filtered)

\* a narrowed range that keeps a row on its upper bound and rejects another row
C3_Witness ==
    /\ pc = "filtered"
    /\ Len(df_filtered) < Len(df)
    /\ widgets.initial_sum_range[2] < Max(Column(df, "initial_sum"))
    /\ \E k \in 1..Len(df_filtered) :
          df_filtered[k].initial_sum = widgets.initial_sum_range[2]

(* C4: the period condition marks every row whose kind is not 1, and the   *)
(* target-sum condition every row whose kind is not 4, whatever the row's  *)
(* period or target_sum is, or when it has none.                           *)
C4_ConditionalRangesSpareOtherKinds ==
    "filter" \in steps =>
       \A c \in 1..Len(conditions) : \A k \in 1..Len(df) :
          /\ (conditions[c].name = "period" /\ df[k].calculation_type # 1)
                => conditions[c].mask[k]
          /\ (conditions[c].name = "target_sum" /\ df[k].calculation_type # 4)
                => conditions[c].mask[k]

\* a row of kind 4 whose period lies outside the chosen period range is retained
C4_Witness ==
    /\ pc = "filtered"
    /\ widgets.period_range # <<>>
    /\ \E k \in 1..Len(df_filtered) :
          /\ df_filtered[k].calculation_type = 4
          /\ \E p \in df_filtered[k].period : p > widgets.period_range[2]

(* C5: a render whose filtered table is empty reports that no record       *)
(* matches and stops with nothing exported, converted or aggregated; the   *)
(* export, conversion and aggregation steps only ever run on a non-empty   *)
(* filtered table.                                                         *)
C5_EmptyFilterStops ==
    /\ steps \cap {"export", "normalize", "aggregate", "rates"} # {} => df_filtered # <<>>
    /\ ("filter" \in steps /\ df_filtered = <<>>) =>
          /\ pc = "stopped"
          /\ "warning: no matching records" \in reports
          /\ steps = {"filter"}
          /\ csv_data = <<>>
          /\ calc_type_stats = <<>>

\* a render stopped by a filter that matches no row of a non-empty table
C5_Witness ==
    /\ pc = "stopped"
    /\ df # <<>>
    /\ "filter" \in steps
    /\ df_filtered = <<>>

(* C9: the exported table is the filtered table of the render, all its     *)
(* columns and its rows in order, and with convert_to_rubles checked its   *)
(* monetary fields carry the values converted with the rate table of the   *)
(* rate provider.                                                          *)
C9_ExportIsConvertedTable ==
    "export" \in steps =>
       /\ Len(csv_data) = Len(df_filtered)
       /\ \A k \in 1..Len(csv_data) :
            /\ csv_data[k].id = df_filtered[k].id
            /\ DOMAIN csv_data[k] = DOMAIN df_filtered[k] \ {"index"}
            /\ widgets.convert_to_rubles =>
                 LET o == Origin(df_filtered[k])
                 IN /\ <<csv_data[k].initial_sum, 1>>
                         = InRubles(o.initial_sum, o.currency, ProviderRates)
                    /\ <<csv_data[k].final_amount, 1>>
                         = InRubles(o.final_amount, o.currency, ProviderRates)
                    /\ <<csv_data[k].total_profit, 1>>
                         = InRubles(o.total_profit, o.currency, ProviderRates)

(* The rate provider on its own: a render has reached line 1041 and the    *)
(* rate service answers with any of Responses(MaxValutes).                 *)
InitRates ==
    /\ clock = 0
    /\ record_cache = EmptySlot
    /\ rates_cache = EmptySlot
    /\ pc = "aggregated"
    /\ attempt = 0
    /\ tries = 0
    /\ outcomes = <<>>
    /\ open_conns = 0
    /\ reports = {}
    /\ df = <<>>
    /\ widgets = <<>>
    /\ conditions = <<>>
    /\ df_filtered = <<>>
    /\ csv_data = <<>>
    /\ rates = <<>>
    /\ calc_type_stats = <<>>
    /\ sum_dist = <<>>
    /\ final_dist = <<>>
    /\ profit_dist = <<>>
    /\ activity_pivot = <<>>
    /\ steps = {}
    /\ response \in Responses(MaxValutes)

\* the stages of a later render up to line 1040, as one step
main_before_rates ==
    /\ pc = "idle"
    /\ pc' = "aggregated"
    /\ UNCHANGED <<clock, record_cache, rates_cache, fetch_vars, reports, df,
                   main_vars, response>>

NextRates ==
    \/ main_rates
    \/ render_over
    \/ main_before_rates

SpecRates == InitRates /\ [][NextRates]_vars

----------------------------------------------------------------------------
(* Properties of the store fetch, checked under SpecFetch                  *)

\* an attempt that ended in a connection-level error of the store
Transient(o) == o.what \in {"OperationalError", "InterfaceError"}
\* an attempt that ended in any other error
NonTransient(o) == o.what \notin {"OperationalError", "InterfaceError", "ok"}

AllTransient(os) == \A i \in 1..Len(os) : Transient(os[i])

(* C1: whatever the attempts do, two transient failures (while opening the *)
(* connection or while running the query) followed by a success return the *)
(* third attempt's result set, and a fetch whose attempts all failed       *)
(* transiently ends, with the error reported, after exactly 3 attempts and *)
(* never makes a 4th.                                                      *)
C1_RetryBudget ==
    /\ Len(outcomes) <= max_retries
    /\ tries <= max_retries
    /\ (Len(outcomes) = max_retries /\ AllTransient(SubSeq(outcomes, 1, 2))
            /\ outcomes[max_retries].what = "ok")
          => (record_cache.valid /\ df = record_cache.value
                /\ reports \cap {"error: db after retries", "error: loading data",
                                 "error: db connection"} = {})
    /\ (pc = "stopped" /\ outcomes # <<>> /\ AllTransient(outcomes))
          => (Len(outcomes) = max_retries /\ reports \cap {"error: db after retries"} # {})

(* C7: a call of load_data at a time in [t, t+60), t being the time the    *)
(* slot was stored, returns the stored snapshot and issues no store query; *)
(* a call at or after t+60 (or with nothing stored) issues a query, and a  *)
(* query that succeeds puts its result set into the slot with the time of  *)
(* the store.                                                              *)
C7_RecordCacheWindow ==
    [][ /\ (pc = "idle" /\ pc' # "idle") =>
              IF record_cache.valid
                   /\ clock \in record_cache.stored .. (record_cache.stored + RECORD_TTL - 1)
              THEN pc' = "loaded" /\ df' = record_cache.value /\ tries' = 0
                   /\ record_cache' = record_cache
              ELSE pc' = "connect" /\ tries' = 1
        /\ (pc = "read_sql" /\ pc' = "loaded") =>
              record_cache' = [valid |-> TRUE, value |-> df', stored |-> clock]
      ]_vars

\* a render served from the slot in the last second of its window
C7_Witness ==
    /\ pc = "loaded"
    /\ tries = 0
    /\ record_cache.valid
    /\ clock = record_cache.stored + RECORD_TTL - 1
    /\ df = record_cache.value

(* C8: a step of a store fetch that does not return a result set - a retry *)
(* or a fatal end - leaves the record cache slot exactly as it was, and    *)
(* the slot is only ever written with the result set a successful fetch    *)
(* hands to main.                                                          *)
C8_FatalFetchKeepsCache ==
    [][ /\ (pc \in {"connect", "read_sql"} /\ pc' # "loaded") => record_cache' = record_cache
        /\ record_cache' # record_cache =>
              (pc' = "loaded" /\ record_cache'.valid /\ record_cache'.value = df')
      ]_vars

\* a fetch ended fatally while the slot held an earlier snapshot
C8_Witness ==
    /\ pc = "stopped"
    /\ outcomes # <<>>
    /\ record_cache.valid
    /\ record_cache.value # <<>>

(* C10: an attempt that fails with a non-transient error is the last       *)
(* attempt of its fetch, whatever its number: the render is stopped with   *)
(* an error reported.                                                      *)
C10_NonTransientStops ==
    \A i \in 1..Len(outcomes) :
        NonTransient(outcomes[i]) =>
            /\ i = Len(outcomes)
            /\ tries = i
            /\ pc = "stopped"
            /\ reports \cap {"error: loading data", "error: db connection"} # {}

\* a non-transient error on the second attempt
C10_Witness ==
    /\ Len(outcomes) = 2
    /\ NonTransient(outcomes[2])
    /\ outcomes[2].at = "read_sql"
    /\ pc = "stopped"

----------------------------------------------------------------------------
(* Properties of the rate provider, checked under SpecRates                *)

\* the <Valute> elements of the answer that carry currency c
EntriesOf(c) ==
    {k \in 1..Len(response.valutes) : response.valutes[k].CharCode = {c}}

\* element k of the answer lacks a field or holds a number that cannot be used
BadEntry(k) ==
    LET e == response.valutes[k]
    IN \/ e.CharCode = {} \/ e.Value = {} \/ e.Nominal = {}
       \/ /\ e.CharCode \cap {"USD", "EUR"} # {}
          /\ \/ \E v \in e.Value : ParseFloat(ReplaceComma(v)) = <<>>
             \/ \E n \in e.Nominal : ParseFloat(n) = <<>> \/ ParseFloat(n)[1] = 0

\* the request failed, or the document misses a field, a number, USD or EUR
RequestFailed ==
    \/ response.kind # "document"
    \/ \E k \in 1..Len(response.valutes) : BadEntry(k)
    \/ EntriesOf("USD") = {}
    \/ EntriesOf("EUR") = {}

(* C6: get_cbr_rates never raises.  On every failure of the request - a    *)
(* network error, a body that is no XML, an element without code, nominal  *)
(* or value, no USD or no EUR element at all - it returns exactly the      *)
(* fallback table and warns; otherwise it returns RUB at 1 and USD and EUR *)
(* at value divided by nominal.                                            *)
C6_RatesOrFallback ==
    (pc = "done" /\ "get_cbr_rates" \in steps) =>
       IF RequestFailed
       THEN rates = FallbackRates /\ "warning: no rates" \in reports
       ELSE /\ DOMAIN rates = {"RUB", "USD", "EUR"}
            /\ rates["RUB"] = <<1, 1>>
            /\ \A c \in {"USD", "EUR"} :
                 LET e == response.valutes[Max(EntriesOf(c))]
                     v == ParseFloat(ReplaceComma(CHOOSE x \in e.Value : TRUE))
                     n == ParseFloat(CHOOSE x \in e.Nominal : TRUE)
                 IN FracMul(rates[c], n) = v
            /\ "warning: no rates" \notin reports

----------------------------------------------------------------------------
(* The filter stage on its own: a render whose store fetch has just        *)
(* returned any result set, and the renders after it that the record       *)
(* cache slot serves, each up to the end of the filter step (line 449).    *)
InitFilter ==
    /\ clock = 0
    /\ \E I \in Selections(MaxRows) :
          /\ df = ResultSet(I)
          /\ record_cache = CacheStore(ResultSet(I), 0)
    /\ rates_cache = EmptySlot
    /\ pc = "loaded"
    /\ attempt = 0
    /\ tries = 1
    /\ outcomes = <<[at |-> "read_sql", what |-> "ok"]>>
    /\ open_conns = 0
    /\ reports = {}
    /\ widgets = <<>>
    /\ conditions = <<>>
    /\ df_filtered = <<>>
    /\ csv_data = <<>>
    /\ rates = <<>>
    /\ calc_type_stats = <<>>
    /\ sum_dist = <<>>
    /\ final_dist = <<>>
    /\ profit_dist = <<>>
    /\ activity_pivot = <<>>
    /\ steps = {}
    /\ response \in RenderAnswers

\* the stages of main after the filter (lines 451-1059), as one step
main_after_filter ==
    /\ pc = "filtered"
    /\ pc' = "done"
    /\ UNCHANGED <<clock, record_cache, rates_cache, fetch_vars, reports, df,
                   main_vars, response>>

NextFilter ==
    \/ main_load_data
    \/ main_filter
    \/ main_after_filter
    \/ render_over

SpecFilter == InitFilter /\ [][NextFilter]_vars

----------------------------------------------------------------------------
(* C11: the reinvestment predicate is a membership test for every          *)
(* selection: a row is retained only if its reinvest_enabled value is one  *)
(* of the selected values, so with nothing selected no row is retained.    *)
C11_ReinvestIsMembership ==
    ("filter" \in steps /\ "normalize" \notin steps) =>
       /\ \A k \in 1..Len(df_filtered) : ReinvestSelected(df_filtered[k], widgets)
       /\ widgets.reinvest_options = {} => df_filtered = <<>>

\* the rows of a loaded table whose positions are in J, in the table's order
SubFrame(frame, J) == SelectSeq(frame, LAMBDA r : r.index + 1 \in J)

\* a list in the opposite order
Reverse(list) == [k \in 1..Len(list) |-> list[Len(list) + 1 - k]]

(* C12: filtering is idempotent and does not depend on the order of the    *)
(* predicates: the predicates of the same settings computed on the         *)
(* filtered table, and the masks of the render applied once more, give the *)
(* filtered table again; the list applied in the opposite order gives the  *)
(* filtered table, any two neighbours of the list applied to the loaded    *)
(* table in either order give the same rows, and a condition applied to    *)
(* any sub-table keeps exactly the rows it marks, so that every order      *)
(* keeps the rows marked by all.  Stated of the render as the filter step  *)
(* leaves it.                                                              *)
C12_FilterIdempotent ==
    (pc \in {"filtered", "stopped"} /\ "filter" \in steps) =>
       /\ ApplyAll(df_filtered, conditions) = df_filtered
       /\ ApplyAll(df_filtered, Conditions(df_filtered, widgets)) = df_filtered
       /\ ApplyAll(df, Reverse(conditions)) = df_filtered
       /\ \A i \in 1..(Len(conditions) - 1) :
             Select(Select(df, conditions[i]), conditions[i+1])
               = Select(Select(df, conditions[i+1]), conditions[i])
       /\ \A J \in SUBSET (1..Len(df)) : \A i \in 1..Len(conditions) :
             Select(SubFrame(df, J), conditions[i])
               = SubFrame(df, {k \in J : conditions[i].mask[k]})

\* the second of two loaded rows is the only one retained, the first being
\* rejected by two of the conditions
C12_Witness ==
    /\ pc = "filtered"
    /\ Len(df) = 2
    /\ Len(df_filtered) = 1
    /\ df_filtered[1].index = 1
    /\ \E i, j \in 1..Len(conditions) :
          i # j /\ ~conditions[i].mask[1] /\ ~conditions[j].mask[1]

----------------------------------------------------------------------------
(* The conversion on its own.  In main as written the rate table is not    *)
(* yet bound when line 519 runs; to settle what lines 517-534 do to a      *)
(* table, they run here on the filtered table of any loaded table under    *)
(* the default settings, with the rate table get_cbr_rates returns for the *)
(* answer of the rate service already bound.                               *)

\* lines 256-401: the values of the widgets while no control was moved
DefaultWidgets(frame, convert) ==
    LET types == {TypeNumber(l) : l \in TypeOptions(frame)}
    IN [convert_to_rubles |-> convert,
        date_range |-> Full(Column(frame, "date_only")),
        currencies |-> Column(frame, "currency"),
        selected_calc_types |-> TypeOptions(frame),
        initial_sum_range |-> Full(Column(frame, "initial_sum")),
        interest_rate_range |-> Full(Column(frame, "interest_rate")),
        period_range |-> CHOOSE p \in PeriodSettings(frame, types, {}) : TRUE,
        target_sum_range |-> CHOOSE t \in TargetSettings(frame, types, {}) : TRUE,
        reinvest_options |-> {"with", "without"},
        final_amount_range |-> Full(Column(frame, "final_amount")),
        profit_range |-> Full(Column(frame, "total_profit"))]

\* a render reaches line 516: the sliders could be built and some row matches
Converts(frame) ==
    /\ ~IsEmpty(frame)
    /\ PeriodSlider(frame, Column(frame, "calculation_type")) # "raised"
    /\ ~NoMatch(ApplyAll(frame, Conditions(frame, DefaultWidgets(frame, TRUE))))

\* the answers of the rate service the conversion is run with
RateAnswers == RenderAnswers \cup Responses(0)

InitNormalize ==
    /\ clock = 0
    /\ \E I \in Selections(MaxRows), convert \in BOOLEAN :
          /\ Converts(ResultSet(I))
          /\ df = ResultSet(I)
          /\ record_cache = CacheStore(ResultSet(I), 0)
          /\ widgets = DefaultWidgets(ResultSet(I), convert)
          /\ conditions = Conditions(ResultSet(I), DefaultWidgets(ResultSet(I), convert))
          /\ df_filtered = ApplyAll(ResultSet(I),
                                    Conditions(ResultSet(I),
                                               DefaultWidgets(ResultSet(I), convert)))
    /\ csv_data = WithoutIndex(df_filtered)
    /\ response \in RateAnswers
    /\ rates = get_cbr_rates(response).table
    /\ rates_cache = CacheStore(rates, 0)
    /\ pc = "exported"
    /\ attempt = 0
    /\ tries = 0
    /\ outcomes = <<>>
    /\ open_conns = 0
    /\ reports = {}
    /\ calc_type_stats = <<>>
    /\ sum_dist = <<>>
    /\ final_dist = <<>>
    /\ profit_dist = <<>>
    /\ activity_pivot = <<>>
    /\ steps = {"filter", "export"}

NextNormalize ==
    \/ main_convert
    \/ main_aggregate

SpecNormalize == InitNormalize /\ [][NextNormalize]_vars

\* the value v as the fraction the conversion would leave it as
AsFraction(v) == <<v, 1>>

MonetaryColumns == {"initial_sum", "final_amount", "total_profit", "add_sum"}

----------------------------------------------------------------------------
(* Properties of the aggregations, checked under Spec                      *)

RECURSIVE SumOver(_, _)
\* the sum of f over the finite set S of its arguments
SumOver(f, S) ==
    IF S = {} THEN 0
    ELSE LET x == CHOOSE y \in S : TRUE IN f[x] + SumOver(f, S \ {x})

\* the sum of all cells of a table of rows of cells
CellTotal(table) ==
    SumOver([h \in DOMAIN table |-> SumOver(table[h], DOMAIN table[h])], DOMAIN table)

\* the filtered rows of hour h and day-of-week value d
AtHourAndDay(h, d) ==
    {k \in 1..Len(df_filtered) :
        df_filtered[k].hour_only = h /\ df_filtered[k].day_of_week = d}

(* C14: once the aggregations ran, the cells of the hour x day-of-week     *)
(* table sum to the number of filtered rows; every row has a cell, that of *)
(* its hour and of the column of its day-of-week value; a cell holds the   *)
(* number of rows of its hour and day, 0 when there is none.               *)
C14_PivotCountsEveryRecord ==
    "aggregate" \in steps =>
       /\ CellTotal(activity_pivot) = Len(df_filtered)
       /\ \A k \in 1..Len(df_filtered) :
             /\ df_filtered[k].hour_only \in DOMAIN activity_pivot
             /\ day_names[df_filtered[k].day_of_week + 1]
                   \in DOMAIN activity_pivot[df_filtered[k].hour_only]
       /\ \A h \in DOMAIN activity_pivot : \A d \in 0..6 :
             day_names[d + 1] \in DOMAIN activity_pivot[h]
                => activity_pivot[h][day_names[d + 1]] = Cardinality(AtHourAndDay(h, d))

\* two filtered rows of the same hour and day, counted in one cell
C14_Witness ==
    /\ pc = "aggregated"
    /\ \E h \in DOMAIN activity_pivot : \E name \in DOMAIN activity_pivot[h] :
          /\ activity_pivot[h][name] = 2
          /\ Cardinality(DOMAIN activity_pivot[h]) = 1
    /\ Len(df_filtered) = 2

\* the example of five loaded rows: kinds 1,1,4,4,1 in RUB,USD,RUB,EUR,RUB
ExampleTable ==
    RangeIndex(
      << Row(15, 1, 1, "RUB", 100, 5, 150,  50, 3, {12}, {},    {TRUE},  {},   9,  1),
         Row(14, 2, 1, "USD", 200, 7, 300, 100, 3, {24}, {},    {FALSE}, {10}, 14, 3),
         Row(13, 3, 4, "RUB", 100, 5, 160,  60, 2, {},   {500}, {TRUE},  {},   9,  1),
         Row(12, 2, 4, "EUR", 300, 9, 450, 150, 2, {},   {700}, {FALSE}, {20}, 23, 0),
         Row(11, 1, 1, "RUB", 300, 9, 450, 150, 1, {36}, {},    {TRUE},  {5},  9,  1) >>)

\* the example filtered to the currency RUB, every other control at its default
ExampleFiltered ==
    ApplyAll(ExampleTable,
             Conditions(ExampleTable,
                        [DefaultWidgets(ExampleTable, FALSE) EXCEPT !.currencies = {"RUB"}]))

\* the ids of the filtered example, in its order, and its group-by
ExampleIds == [k \in 1..Len(ExampleFiltered) |-> ExampleFiltered[k].id]
ExampleStats == GroupByType(ExampleFiltered)

(* C15: the filtered table holds rows of the loaded table in the order     *)
(* they were loaded in, and the group-by of the aggregation has an entry   *)
(* for exactly the kinds present in the filtered table, each counting the  *)
(* filtered rows of its kind, the counts summing to the number of filtered *)
(* rows; the example table filtered to RUB gives its 1st, 3rd and 5th row  *)
(* in this order and the counts 2 for kind 1 and 1 for kind 4.             *)
C15_OrderAndGroupCounts ==
    /\ "filter" \in steps =>
          /\ \A k \in 1..Len(df_filtered) : df_filtered[k].id = Origin(df_filtered[k]).id
          /\ \A k \in 1..(Len(df_filtered) - 1) :
                df_filtered[k].index < df_filtered[k+1].index
    /\ "aggregate" \in steps =>
          /\ DOMAIN calc_type_stats = Column(df_filtered, "calculation_type")
          /\ \A t \in DOMAIN calc_type_stats :
                calc_type_stats[t].id
                   = Cardinality({k \in 1..Len(df_filtered) :
                                     df_filtered[k].calculation_type = t})
          /\ SumOver([t \in DOMAIN calc_type_stats |-> calc_type_stats[t].id],
                     DOMAIN calc_type_stats) = Len(df_filtered)
    /\ ExampleIds = <<15, 13, 11>>
    /\ DOMAIN ExampleStats = {1, 4}
    /\ ExampleStats[1].id = 2
    /\ ExampleStats[4].id = 1

\* two filtered rows of one kind, in the order they were loaded in, grouped
C15_Witness ==
    /\ pc = "aggregated"
    /\ Len(df_filtered) = 2
    /\ df_filtered[1].index < df_filtered[2].index
    /\ \E t \in DOMAIN calc_type_stats : calc_type_stats[t].id = 2

----------------------------------------------------------------------------
(* C16: a store fetch never holds two open connections - the connection of *)
(* an attempt that failed transiently is closed before the next attempt    *)
(* opens one - and when the fetch has ended, with a result set, after the  *)
(* last attempt or fatally, no connection it opened is still open.         *)
C16_ConnectionsClosed ==
    /\ open_conns <= 1
    /\ (pc \in {"loaded", "stopped"} /\ outcomes # <<>>) => open_conns = 0
    /\ (pc = "connect" /\ outcomes # <<>>) => open_conns = 0

----------------------------------------------------------------------------
\* the filtered rows whose amount in column col lies in [edges[i], edges[i+1]),
\* the last range having no upper end
InRange(col, edges, i) ==
    {k \in 1..Len(df_filtered) :
        LET v == Amount(df_filtered[k][col], widgets.convert_to_rubles)
        IN /\ v[1] >= edges[i] * v[2]
           /\ (i = Len(edges) \/ v[1] < edges[i+1] * v[2])}

\* the histogram dist counts every row in the range of its amount
CountsByRange(dist, col, edges) ==
    /\ \A i \in 1..Len(edges) : dist[i] = Cardinality(InRange(col, edges, i))
    /\ SumOver(dist, DOMAIN dist)
          = Cardinality({k \in 1..Len(df_filtered) :
                            Amount(df_filtered[k][col], widgets.convert_to_rubles)[1] >= 0})

(* C17: once the aggregations ran, each of the three histograms counts     *)
(* every filtered row with an amount >= 0 in exactly one bin, the one      *)
(* whose range [b, next b) holds the amount: an amount equal to an         *)
(* interior edge b is in the bin that starts at b, an amount at or above   *)
(* the last finite edge in the last bin, and the counts sum to the number  *)
(* of these rows.                                                          *)
C17_HistogramPartitions ==
    "aggregate" \in steps =>
       /\ CountsByRange(sum_dist, "initial_sum", bins(widgets.convert_to_rubles))
       /\ CountsByRange(final_dist, "final_amount", bins_final(widgets.convert_to_rubles))
       /\ CountsByRange(profit_dist, "total_profit", bins_profit(widgets.convert_to_rubles))

----------------------------------------------------------------------------
\* every filter control of the render is at its default
AllDefault == \E convert \in BOOLEAN : widgets = DefaultWidgets(df, convert)

(* C19: a render of a non-empty loaded table in which no filter control    *)
(* was moved gets through the filter step, and its filtered table is the   *)
(* loaded table - also when rows of kind 4 have no target_sum, rows of     *)
(* kind 1 no period, or rows no reinvestment flag.                         *)
C19_DefaultsHideNothing ==
    (pc \in {"filtered", "stopped", "raised"} /\ df # <<>> /\ widgets # <<>> /\ AllDefault)
       => ("filter" \in steps /\ df_filtered = df)

\* the names of the weekdays as EXTRACT(dow) numbers them: 0 is Sunday
WeekdayLabel(w) == <<"Vs", "Pn", "Vt", "Sr", "Cht", "Pt", "Sb">>[w + 1]

(* C20: once the aggregations ran, the filtered rows created at hour h on  *)
(* weekday w (0 = Sunday, 1 = Monday, ... 6 = Saturday) are counted in the *)
(* heatmap under the label that names weekday w: Monday rows under Pn,     *)
(* Sunday rows under Vs.                                                   *)
C20_WeekdayLabels ==
    "aggregate" \in steps =>
       \A h \in DOMAIN activity_pivot : \A w \in 0..6 :
          AtHourAndDay(h, w) # {} =>
             /\ WeekdayLabel(w) \in DOMAIN activity_pivot[h]
             /\ activity_pivot[h][WeekdayLabel(w)] = Cardinality(AtHourAndDay(h, w))

====
